---- MODULE Spec2Model ----
(***************************************************************************)
(* The Excel editor of src/app.py as a state machine.                      *)
(*                                                                         *)
(* One step of the machine is one user interaction followed by one whole   *)
(* run of main(): the host re-executes the script from the top after every *)
(* interaction.  What survives from one run to the next is what the host   *)
(* keeps for the widgets: the uploaded file, the select box's choice and   *)
(* the grid's edit state.  Everything else is recomputed by the run.       *)
(*                                                                         *)
(* A workbook is a sequence of sheets, sheet i being named SheetName(i).   *)
(* A sheet is a grid of text cells whose first row is the header row.  A   *)
(* table (data frame) is a header and a sequence of rows.                  *)
(***************************************************************************)
EXTENDS Integers, Sequences, FiniteSets, TLC

\* Bounds of the model.
MaxSheets == 3
MaxEdits == 1
MaxAdded == 1

\* ------------------------------------------------------------------ data

SheetName(i) == "Sheet" \o ToString(i)

\* A sheet of one column and two rows.
PlainCells == << <<"a">>, <<"1">>, <<"3">> >>

\* A sheet of two columns and one row whose second header cell is blank.
BlankHeaderCells == << <<"a", "">>, <<"5", "6">> >>

\* What a sheet of an uploaded file can be: readable or not, with its cells.
Contents ==
    { [readable |-> TRUE,  cells |-> PlainCells],
      [readable |-> TRUE,  cells |-> BlankHeaderCells],
      [readable |-> FALSE, cells |-> PlainCells] }

NoUpload == [present |-> FALSE, ok |-> FALSE, sheets |-> << >>]

\* A binary that is no workbook.
CorruptFile == [present |-> TRUE, ok |-> FALSE, sheets |-> << >>]

\* The files a user can upload: the corrupt one and every workbook of up to
\* MaxSheets sheets.
Files ==
    {CorruptFile} \cup
    { [present |-> TRUE, ok |-> TRUE, sheets |-> s] :
        s \in UNION { [1..n -> Contents] : n \in 0..MaxSheets } }

EmptyDataFrame == [header |-> << >>, rows |-> << >>]

NoHandle == [open |-> FALSE, sheet_names |-> << >>, book |-> << >>]

\* The value a user types into a cell.
EditValue == "9"

\* The text the filter of the rich grid keeps (first column equals it).
FilterText == "1"

\* The order of the cell texts, as the rich grid's sort compares them.
CellOrder == <<"", "1", "3", "5", "6", "9">>

CellRank(v) == CHOOSE k \in 1..Len(CellOrder) : CellOrder[k] = v

NoView == [filter |-> FALSE, sort |-> FALSE]

\* The filter and sort settings a user can put the rich grid in.
Views == [filter : BOOLEAN, sort : BOOLEAN]

\* The grid's state as the host keeps it between runs: the table it was
\* created for (its identity), the edited cells, the number of added rows, and
\* the filter and sort in force when the grid last reported its value.
NoWidget ==
    [shown |-> FALSE, id |-> EmptyDataFrame, edited |-> {}, added |-> 0,
     reported |-> NoView]

NoSelect == [shown |-> FALSE, options |-> << >>, index |-> 0]

NoParse == [ok |-> FALSE, df |-> EmptyDataFrame]

NoEdits == [edited |-> {}, added |-> 0]

VARIABLES
    aggrid_available,  \* try_import_aggrid()'s answer, fixed for the process
    uploaded_file,     \* the file uploader's value
    select,            \* the select box's state, kept by the host
    widget,            \* the grid's state, kept by the host
    xl,                \* the last run's workbook handle
    raised,            \* the last run ended by an exception leaving main()
    state,             \* the shell state the last run ended in
    messages,          \* the messages the last run showed
    sheet_name,        \* the last run's selected sheet name ("" for none)
    res,               \* the last run's parse of the selected sheet
    parsed,            \* the sheets the last run called xl.parse on, in order
    metrics,           \* the row and column counts the last run showed
    edited_df,         \* the table the grid returned in the last run
    written,           \* the sheets write_workbook wrote in the last run
    download,          \* the last run offered the download
    here               \* history: the edits made under the current selection

shell == <<xl, raised, state, messages, sheet_name, res, parsed, metrics,
           edited_df, written, download>>

vars == <<aggrid_available, uploaded_file, select, widget, shell, here>>

\* ------------------------------------------------------- workbook loader

\* load_excel: pd.ExcelFile(file); on a binary that is no workbook it shows
\* the error and raises again, and no handle comes back.
load_excel(file) ==
    IF file.ok
    THEN [open |-> TRUE,
          sheet_names |-> [i \in 1..Len(file.sheets) |-> SheetName(i)],
          book |-> file.sheets]
    ELSE NoHandle

\* The header pandas makes of a header row: a blank cell becomes
\* "Unnamed: k" (k counted from 0), a repeated name gets ".1", ".2", ...
HeaderName(h, k) ==
    LET base == IF h[k] = "" THEN "Unnamed: " \o ToString(k - 1) ELSE h[k]
        seen == Cardinality({j \in 1..(k - 1) : h[j] = h[k] /\ h[k] # ""})
    IN  IF seen = 0 THEN base ELSE base \o "." \o ToString(seen)

\* Reading one sheet's cells with the default arguments: the first row is
\* the header, the rest are the rows; a sheet without cells is an empty frame.
read_sheet(cells) ==
    IF cells = << >>
    THEN EmptyDataFrame
    ELSE [header |-> [k \in 1..Len(cells[1]) |-> HeaderName(cells[1], k)],
          rows |-> Tail(cells)]

SheetIndex(handle, name) ==
    CHOOSE i \in 1..Len(handle.sheet_names) : handle.sheet_names[i] = name

\* xl.parse(name): fails on an unreadable sheet.
parse(handle, name) ==
    LET sheet == handle.book[SheetIndex(handle, name)]
    IN  IF sheet.readable
        THEN [ok |-> TRUE, df |-> read_sheet(sheet.cells)]
        ELSE NoParse

\* df.to_excel(writer, index=False): the header row, then the rows; a frame
\* without columns writes no cell.
to_excel(df) ==
    IF df.header = << >> THEN << >> ELSE <<df.header>> \o df.rows

\* --------------------------------------------------------- grid renderer

\* An element keeps its state from one run to the next when the next run
\* creates it again with the same arguments: here, the same table.  The key
\* "data_editor" is the same in every run.
SessionState(w, df) ==
    IF w.shown /\ w.id = df
    THEN w
    ELSE [NoWidget EXCEPT !.shown = TRUE, !.id = df]

ApplyCellEdits(rows, edited) ==
    [r \in 1..Len(rows) |->
        [c \in 1..Len(rows[r]) |->
            IF <<r, c>> \in edited THEN EditValue ELSE rows[r][c]]]

BlankRow(n) == [c \in 1..n |-> ""]

RECURSIVE InsertDesc(_, _)
InsertDesc(row, sorted) ==
    IF sorted = << >> THEN <<row>>
    ELSE IF CellRank(row[1]) > CellRank(Head(sorted)[1])
         THEN <<row>> \o sorted
         ELSE <<Head(sorted)>> \o InsertDesc(row, Tail(sorted))

\* Rows sorted by their first column, largest first, equal ones in their order.
RECURSIVE SortDesc(_)
SortDesc(rows) ==
    IF rows = << >> THEN << >>
    ELSE InsertDesc(rows[Len(rows)], SortDesc(SubSeq(rows, 1, Len(rows) - 1)))

FilterRows(rows) == SelectSeq(rows, LAMBDA row : row[1] = FilterText)

\* Mutant of FILTERED_AND_SORTED: DataReturnMode.AS_INPUT, the rows as given.
AS_INPUT(rows, view) == rows

\* DataReturnMode.FILTERED_AND_SORTED: the rows as the grid shows them.
FILTERED_AND_SORTED(rows, view) ==
    LET kept == IF view.filter THEN FilterRows(rows) ELSE rows
    IN  IF view.sort THEN SortDesc(kept) ELSE kept

\* build_aggrid_table: the rich grid on df, in the state w the host holds for
\* it; its data comes back edited, filtered and sorted.
build_aggrid_table(df, w) ==
    [header |-> df.header,
     rows |-> FILTERED_AND_SORTED(ApplyCellEdits(df.rows, w.edited), w.reported)]

\* build_data_editor_table: the built-in editor with a dynamic number of
\* rows on df, in the state w the host holds under the key "data_editor".
build_data_editor_table(df, w) ==
    [header |-> df.header,
     rows |-> ApplyCellEdits(df.rows, w.edited)
              \o [i \in 1..w.added |-> BlankRow(Len(df.header))]]

\* ------------------------------------------------------- workbook writer

\* Mutant of OtherNames: the loop without its "continue".
OtherNames_noskip(names, name) == names

\* The names the loop writes: every name but the selected one.
OtherNames(names, name) == SelectSeq(names, LAMBDA n : n # name)

\* try: xl.parse(name)  except: pd.DataFrame()
ParseOrEmpty(handle, name) ==
    LET p == parse(handle, name)
    IN  IF p.ok THEN p.df ELSE EmptyDataFrame

\* Mutant of write_workbook: every sheet written at its original position.
write_workbook_inplace(edits, name, handle) ==
    [i \in 1..Len(handle.sheet_names) |->
        [name |-> handle.sheet_names[i],
         cells |-> IF handle.sheet_names[i] = name
                   THEN to_excel(edits)
                   ELSE to_excel(ParseOrEmpty(handle, handle.sheet_names[i]))]]

\* Mutant of write_workbook: the loop writes edits instead of df_other.
write_workbook_copy(edits, name, handle) ==
    LET others == OtherNames(handle.sheet_names, name)
    IN  <<[name |-> name, cells |-> to_excel(edits)]>>
        \o [i \in 1..Len(others) |->
              [name |-> others[i], cells |-> to_excel(edits)]]

\* write_workbook: the sheets of the new workbook, in the order written.
write_workbook(edits, name, handle) ==
    LET others == OtherNames(handle.sheet_names, name)
    IN  <<[name |-> name, cells |-> to_excel(edits)]>>
        \o [i \in 1..Len(others) |->
              [name |-> others[i],
               cells |-> to_excel(ParseOrEmpty(handle, others[i]))]]

\* ----------------------------------------------------- interaction shell

\* st.selectbox(options=sheets): the kept choice when the options are those
\* of the last run, the first option otherwise, nothing without options.
selectbox(options, s) ==
    IF options = << >> THEN [NoSelect EXCEPT !.shown = TRUE]
    ELSE IF s.shown /\ s.options = options /\ s.index \in 1..Len(options)
         THEN s
         ELSE [shown |-> TRUE, options |-> options, index |-> 1]

\* Mutant of SheetsEmpty: the guard never taken.
SheetsEmpty_never(sheets) == FALSE

\* if not sheets
SheetsEmpty(sheets) == sheets = << >>

\* Mutant of SelectedParseFailed: the failure swallowed, the run goes on.
SelectedParseFailed_swallowed(p) == FALSE

\* except Exception, around xl.parse(sheet_name) in main
SelectedParseFailed(p) == ~p.ok

\* main(): one run of the script on the file uploader's value file, the
\* select box's state s and the grid's state w.  The host keeps the state of
\* the widgets the run creates and drops that of the others.  Each local of
\* the run is given in the order the script computes it; a local the run
\* does not reach, because of an earlier return or exception, has its empty
\* value.  load_excel's exception is not caught in main (line 120), so a
\* failed load ends the run by that exception, before the run has left
\* NoFile; the three other exits are returns (lines 117, 124, 136).
main(file, s, w) ==
    /\ uploaded_file' = file
    /\ xl' = IF file.present THEN load_excel(file) ELSE NoHandle
    /\ raised' = (file.present /\ ~xl'.open)
    /\ select' = IF xl'.open /\ ~SheetsEmpty(xl'.sheet_names)
                 THEN selectbox(xl'.sheet_names, s)
                 ELSE NoSelect
    /\ sheet_name' = IF select'.index = 0 THEN ""
                     ELSE xl'.sheet_names[select'.index]
    /\ res' = IF sheet_name' = "" THEN NoParse ELSE parse(xl', sheet_name')
    /\ state' = IF ~xl'.open THEN "NoFile"
                ELSE IF sheet_name' = "" THEN "FileLoaded"
                ELSE IF SelectedParseFailed(res') THEN "SheetSelected"
                ELSE "Edited"
    /\ messages' = IF ~file.present THEN {"info"}
                   ELSE IF ~xl'.open THEN {"load_error"}
                   ELSE IF SheetsEmpty(xl'.sheet_names) THEN {"empty_error"}
                   ELSE IF sheet_name' # "" /\ SelectedParseFailed(res')
                        THEN {"parse_error"}
                   ELSE {}
    /\ metrics' = IF state' = "Edited"
                  THEN <<Len(res'.df.rows), Len(res'.df.header)>>
                  ELSE << >>
    /\ widget' = IF state' = "Edited" THEN SessionState(w, res'.df)
                 ELSE NoWidget
    /\ edited_df' = IF state' # "Edited" THEN EmptyDataFrame
                    ELSE IF aggrid_available
                         THEN build_aggrid_table(res'.df, widget')
                         ELSE build_data_editor_table(res'.df, widget')
    /\ written' = IF state' = "Edited"
                  THEN write_workbook(edited_df', sheet_name', xl')
                  ELSE << >>
    /\ parsed' = IF sheet_name' = "" THEN << >>
                 ELSE IF state' = "Edited"
                      THEN <<sheet_name'>>
                           \o OtherNames(xl'.sheet_names, sheet_name')
                      ELSE <<sheet_name'>>
    /\ download' = (state' = "Edited")
    /\ UNCHANGED aggrid_available

\* ------------------------------------------------------------- behaviour

\* The process has started and the page was opened: main() ran without a file.
Init ==
    /\ aggrid_available \in BOOLEAN
    /\ uploaded_file = NoUpload
    /\ select = NoSelect
    /\ widget = NoWidget
    /\ xl = NoHandle
    /\ raised = FALSE
    /\ state = "NoFile"
    /\ messages = {"info"}
    /\ sheet_name = ""
    /\ res = NoParse
    /\ parsed = << >>
    /\ metrics = << >>
    /\ edited_df = EmptyDataFrame
    /\ written = << >>
    /\ download = FALSE
    /\ here = NoEdits

\* The user uploads a file: the first one, or another file than the one in
\* place.
Upload ==
    \E f \in Files :
        /\ f # uploaded_file
        /\ main(f, select, widget)
        /\ here' = NoEdits

\* The user removes the uploaded file.
RemoveFile ==
    /\ uploaded_file.present
    /\ main(NoUpload, select, widget)
    /\ here' = NoEdits

\* The user chooses another sheet in the select box.
SelectSheet ==
    \E i \in 1..Len(select.options) :
        /\ select.shown
        /\ i # select.index
        /\ main(uploaded_file, [select EXCEPT !.index = i], widget)
        /\ here' = NoEdits

\* The user types EditValue into a cell of an original row.  The rich grid
\* reports its value on this event (GridUpdateMode.VALUE_CHANGED), with the
\* filter and sort the user has set in it by then.
EditCell ==
    \E r \in 1..Len(res.df.rows), c \in 1..Len(res.df.header), view \in Views :
        /\ widget.shown
        /\ aggrid_available \/ view = NoView
        /\ <<r, c>> \notin widget.edited
        /\ Cardinality(widget.edited) < MaxEdits
        /\ main(uploaded_file, select,
                [widget EXCEPT !.edited = @ \cup {<<r, c>>},
                               !.reported = view])
        /\ here' = [here EXCEPT !.edited = @ \cup {<<r, c>>}]

\* The user adds a row in the built-in editor (num_rows="dynamic").
AddRow ==
    /\ widget.shown
    /\ ~aggrid_available
    /\ widget.added < MaxAdded
    /\ main(uploaded_file, select, [widget EXCEPT !.added = @ + 1])
    /\ here' = [here EXCEPT !.added = @ + 1]

Next ==
    \/ Upload
    \/ RemoveFile
    \/ SelectSheet
    \/ EditCell
    \/ AddRow

Spec == Init /\ [][Next]_vars

\* ---------------------------------------------------------------- claims

\* The position of a sheet name in the uploaded workbook.
OriginalIndex(name) ==
    CHOOSE k \in 1..Len(uploaded_file.sheets) : SheetName(k) = name

OriginalNames == {SheetName(k) : k \in 1..Len(uploaded_file.sheets)}

WrittenNames == {written[i].name : i \in 1..Len(written)}

\* The rows under the header row of a written sheet.
DataRows(cells) == IF cells = << >> THEN << >> ELSE Tail(cells)

AllReadable == \A k \in 1..Len(uploaded_file.sheets) : uploaded_file.sheets[k].readable

\* C1: whenever write_workbook has run, the set of sheet names it wrote is the
\* set of sheet names of the workbook handle, one written sheet per name.
SheetSetPreserved ==
    state = "Edited" =>
        /\ WrittenNames = OriginalNames
        /\ OriginalNames = {xl.sheet_names[k] : k \in 1..Len(xl.sheet_names)}
        /\ Len(written) = Len(uploaded_file.sheets)

\* C1 witness: a three-sheet workbook was written with the last sheet selected
\* and both an unreadable and a readable pass-through sheet.
SheetSetPreservedWitness ==
    /\ state = "Edited"
    /\ Len(uploaded_file.sheets) = 3
    /\ sheet_name = SheetName(3)
    /\ ~uploaded_file.sheets[1].readable
    /\ uploaded_file.sheets[2].readable
    /\ Len(written) = 3

\* C2: the edited table is written first under the selected name, then every
\* other original sheet exactly once, in the order of the original sequence.
EditedFirstOthersInOrder ==
    state = "Edited" =>
        /\ written[1].name = sheet_name
        /\ \A i \in 2..Len(written) : written[i].name # sheet_name
        /\ \A k \in 1..Len(uploaded_file.sheets) :
              Cardinality({i \in 1..Len(written) : written[i].name = SheetName(k)}) = 1
        /\ \A i, j \in 2..Len(written) :
              i < j => OriginalIndex(written[i].name) < OriginalIndex(written[j].name)

\* C2 witness: the middle sheet of three was selected, so the output order is
\* second, first, third.
EditedFirstOthersInOrderWitness ==
    /\ state = "Edited"
    /\ Len(written) = 3
    /\ written[1].name = SheetName(2)
    /\ written[2].name = SheetName(1)
    /\ written[3].name = SheetName(3)

\* C3: whenever the selected sheet is readable the write completes and the
\* download is offered, whatever the other sheets are; every other sheet is
\* written with what parsing it from the original workbook gives, whatever
\* was edited, and as a sheet without any cell when it cannot be parsed.
Isolation ==
    (uploaded_file.ok /\ sheet_name # ""
        /\ uploaded_file.sheets[OriginalIndex(sheet_name)].readable) =>
        /\ download
        /\ \A k \in 1..Len(uploaded_file.sheets) :
              SheetName(k) # sheet_name =>
                \E i \in 2..Len(written) :
                    /\ written[i].name = SheetName(k)
                    /\ written[i].cells =
                         IF uploaded_file.sheets[k].readable
                         THEN LET cells == uploaded_file.sheets[k].cells
                              IN  <<[c \in 1..Len(cells[1]) |-> HeaderName(cells[1], c)]>>
                                  \o Tail(cells)
                         ELSE << >>

\* C3 witness: a cell of the selected sheet was edited while one other sheet
\* is unreadable and another is readable.
IsolationWitness ==
    /\ state = "Edited"
    /\ widget.edited # {}
    /\ download
    /\ \E j, k \in 1..Len(uploaded_file.sheets) :
          /\ SheetName(j) # sheet_name
          /\ SheetName(k) # sheet_name
          /\ ~uploaded_file.sheets[j].readable
          /\ uploaded_file.sheets[k].readable

\* C4: with every sheet readable and no cell changed in the grid, the written
\* workbook has the selected sheet first, the others in their original order,
\* and every sheet cell-equal to the input sheet of that name.
RoundTripIdentity ==
    (state = "Edited" /\ AllReadable /\ widget.edited = {} /\ widget.added = 0) =>
        /\ written[1].name = sheet_name
        /\ WrittenNames = OriginalNames
        /\ \A i \in 1..Len(written) :
              written[i].cells = uploaded_file.sheets[OriginalIndex(written[i].name)].cells

\* C5: after the upload of a binary that is no workbook the load error is
\* shown, there is no handle, no select box, no grid and no download, and the
\* run has ended in NoFile without an exception leaving main().
CorruptFileGuard ==
    (uploaded_file.present /\ ~uploaded_file.ok) =>
        /\ "load_error" \in messages
        /\ ~xl.open
        /\ ~select.shown
        /\ ~widget.shown
        /\ ~download
        /\ written = << >>
        /\ state = "NoFile"
        /\ ~raised

\* C6: with a workbook of zero sheets the run shows the error and stops in
\* FileLoaded: no sheet is parsed, no grid shown, nothing written or offered.
EmptyWorkbookGuard ==
    (uploaded_file.ok /\ uploaded_file.sheets = << >>) =>
        /\ "empty_error" \in messages
        /\ state = "FileLoaded"
        /\ xl.open
        /\ ~raised
        /\ parsed = << >>
        /\ ~widget.shown
        /\ written = << >>
        /\ ~download

\* C6 witness: a workbook without sheets is the uploaded file.
EmptyWorkbookGuardWitness ==
    /\ uploaded_file.ok
    /\ uploaded_file.sheets = << >>
    /\ state = "FileLoaded"

\* C7: the download is offered only in Edited: a file is uploaded, it loaded,
\* it has sheets, the selected name is one of them, that sheet parsed and the
\* grid returned a table; and when the selected sheet does not parse the error
\* is shown and nothing is written or offered.
DownloadOnlyWhenEdited ==
    /\ download =>
          /\ state = "Edited"
          /\ uploaded_file.present
          /\ xl.open
          /\ xl.sheet_names # << >>
          /\ sheet_name \in OriginalNames
          /\ uploaded_file.sheets[OriginalIndex(sheet_name)].readable
          /\ res.ok
          /\ widget.shown
          /\ edited_df.header = res.df.header
          /\ written # << >>
    /\ (sheet_name # "" /\ ~uploaded_file.sheets[OriginalIndex(sheet_name)].readable) =>
          /\ "parse_error" \in messages
          /\ state = "SheetSelected"
          /\ ~widget.shown
          /\ written = << >>
          /\ ~download

\* C7 witness: the download is offered after an edit in a workbook that also
\* has an unreadable sheet the user could have selected.
DownloadOnlyWhenEditedWitness ==
    /\ download
    /\ widget.edited # {}
    /\ \E k \in 1..Len(uploaded_file.sheets) : ~uploaded_file.sheets[k].readable

\* C8: in the built-in editor the written selected sheet has the n rows of
\* the parsed table plus the k rows added under this selection, and every
\* other readable sheet keeps its number of rows.
RowGrowth ==
    (~aggrid_available /\ state = "Edited") =>
        /\ Len(DataRows(written[1].cells)) = Len(res.df.rows) + here.added
        /\ \A i \in 2..Len(written) :
              LET sheet == uploaded_file.sheets[OriginalIndex(written[i].name)]
              IN  sheet.readable =>
                    Len(DataRows(written[i].cells)) = Len(sheet.cells) - 1

\* C9: the table the grid returns holds no edit made under another selection
\* (another sheet, or another file): the edited cells and the added rows the
\* grid applies are among those made since the current selection began.
EditsDiscardedOnSwitch ==
    state = "Edited" =>
        /\ widget.edited \subseteq here.edited
        /\ widget.added <= here.added
        /\ Len(edited_df.rows) <= Len(res.df.rows) + here.added
        /\ here.edited = {} =>
              \A r \in 1..Len(edited_df.rows) :
                  \A c \in 1..Len(edited_df.rows[r]) :
                      edited_df.rows[r][c] # EditValue

\* C10: the selected sheet is written as the table the grid returned in this
\* run, rows in the same order; in the rich grid that is the filtered and
\* sorted view (rows the filter hides are absent, the order is the sort's);
\* the metrics are the row and column counts of the parsed table.
WrittenIsGridView ==
    state = "Edited" =>
        LET original == uploaded_file.sheets[OriginalIndex(sheet_name)].cells
            out == DataRows(written[1].cells)
            edited == [r \in 1..(Len(original) - 1) |->
                         [c \in 1..Len(original[1]) |->
                            IF <<r, c>> \in widget.edited THEN EditValue
                            ELSE original[r + 1][c]]]
        IN  /\ written[1].name = sheet_name
            /\ out = edited_df.rows
            /\ written[1].cells[1] = edited_df.header
            /\ metrics = <<Len(original) - 1, Len(original[1])>>
            /\ aggrid_available =>
                /\ widget.reported.filter =>
                      /\ \A i \in 1..Len(out) : out[i][1] = FilterText
                      /\ Len(out) = Cardinality({r \in 1..Len(edited) :
                                                    edited[r][1] = FilterText})
                /\ ~widget.reported.filter => Len(out) = Len(edited)
                /\ widget.reported.sort =>
                      \A i, j \in 1..Len(out) :
                          i < j => CellRank(out[i][1]) >= CellRank(out[j][1])
                /\ ~widget.reported.sort =>
                      \E f \in [1..Len(out) -> 1..Len(edited)] :
                          /\ \A i \in 1..Len(out) : out[i] = edited[f[i]]
                          /\ \A i, j \in 1..Len(out) : i < j => f[i] < f[j]

\* C10 witness: the rich grid reported with its filter on, a row is hidden,
\* and the written selected sheet has fewer rows than the metrics show.
WrittenIsGridViewWitness ==
    /\ state = "Edited"
    /\ aggrid_available
    /\ widget.reported.filter
    /\ Len(DataRows(written[1].cells)) < metrics[1]
    /\ Len(DataRows(written[1].cells)) > 0

====
